---- MODULE Spec2Model ----
(***************************************************************************)
(* A model of NPMAnalyzer (src/analyzer.py): the iterative, depth-bounded, *)
(* filtered construction of a dependency graph and the reverse-dependency  *)
(* scan over the stored full graph.                                        *)
(*                                                                         *)
(* Package names and the filter substring are sequences of characters, so  *)
(* that str.strip() and the substring test "x in y" are computed and not   *)
(* assumed.  A Python dict is a sequence of <<key, value>> pairs with      *)
(* distinct keys, in insertion order.  A deque used as a stack is a        *)
(* sequence whose last element is the top.                                 *)
(***************************************************************************)
EXTENDS Integers, Sequences, FiniteSets, TLC

(***************************************************************************)
(* Bounds of the model.                                                    *)
(***************************************************************************)
MaxDeps == 2
MaxEdges == 4
MaxDepth == 3
MaxCalls == 2

(***************************************************************************)
(* Strings.                                                                *)
(***************************************************************************)
IsSpace(c) == c = " "

RECURSIVE LStrip(_)
LStrip(s) ==
    IF s # <<>> /\ IsSpace(Head(s)) THEN LStrip(Tail(s)) ELSE s

RECURSIVE RStrip(_)
RStrip(s) ==
    IF s # <<>> /\ IsSpace(s[Len(s)]) THEN RStrip(SubSeq(s, 1, Len(s) - 1)) ELSE s

\* str.strip(): leading and trailing whitespace removed
Strip(s) == RStrip(LStrip(s))

\* the Python test "sub in s" on strings
Contains(sub, s) ==
    \E i \in 0..(Len(s) - Len(sub)) : SubSeq(s, i + 1, i + Len(sub)) = sub

\* str.endswith
EndsWith(s, suffix) ==
    /\ Len(suffix) <= Len(s)
    /\ SubSeq(s, Len(s) - Len(suffix) + 1, Len(s)) = suffix

(***************************************************************************)
(* Dicts (insertion-ordered) and lists.                                    *)
(***************************************************************************)
EmptyDict == <<>>

Keys(d) == {d[i][1] : i \in DOMAIN d}

HasKey(d, k) == \E i \in DOMAIN d : d[i][1] = k

Get(d, k) == d[CHOOSE i \in DOMAIN d : d[i][1] = k][2]

\* d[k] = v: an existing key keeps its position, a new key goes last
Put(d, k, v) ==
    IF HasKey(d, k)
    THEN [i \in DOMAIN d |-> IF d[i][1] = k THEN <<k, v>> ELSE d[i]]
    ELSE Append(d, <<k, v>>)

\* d.update(e)
RECURSIVE Update(_, _)
Update(d, e) ==
    IF e = <<>> THEN d ELSE Update(Put(d, e[1][1], e[1][2]), Tail(e))

\* the set of elements of a list
Elems(l) == {l[i] : i \in DOMAIN l}

\* "x in l" on a list
InList(x, l) == \E i \in DOMAIN l : l[i] = x

\* the dict as a mapping, forgetting insertion order
AsMap(d) == [k \in Keys(d) |-> Get(d, k)]

\* the element deque.popleft() would return
Oldest(s) == s[1]

\* deque.pop() on the right: the element returned and what is left
Top(s) == s[Len(s)]

\* the top read and left on the stack
RestAfterPeek(s) == s

Rest(s) == SubSeq(s, 1, Len(s) - 1)

(***************************************************************************)
(* State.                                                                  *)
(***************************************************************************)
VARIABLES
    config,         \* self.config
    repository,     \* the dependency source: the test file's graph, or the registry
    pc,             \* where the analyzer is
    graph,          \* local of the build
    stack,          \* local of the build: (package_name, depth) pairs
    cycle_detected, \* self.cycle_detected
    full_graph,     \* self.full_graph
    result,         \* what the last call returned
    popped,         \* history: <<name, depth, was a key>> of every pop of the build
    fetched,        \* history: names the dependency source was asked for, in order
    truncated,      \* history: names inserted as keys at depth >= max_depth
    warnings,       \* history: names whose fetch failed (the printed warnings)
    pushed,         \* history: names appended to the stack of the build, in order
    target,         \* target_package of the last reverse query, empty before the first
    scan_graph,     \* the graph the scan was given
    rstack,         \* local of the scan
    visited,        \* local of the scan
    reverse_deps,   \* local of the scan
    budget          \* calls the analyzer's client has still to make

vars == <<config, repository, pc, graph, stack, cycle_detected, full_graph, result,
          popped, fetched, truncated, warnings, pushed, target, scan_graph, rstack,
          visited, reverse_deps, budget>>

buildVars == <<graph, stack, popped, fetched, truncated, warnings, pushed>>
scanVars == <<target, scan_graph, rstack, visited, reverse_deps>>

None == "None"


(***************************************************************************)
(* Inputs.  Names are built from the characters "a" and "b", so that one   *)
(* name can contain another and a filter can exclude several names.        *)
(***************************************************************************)
NameA == <<"a">>
NameB == <<"b">>
NameAB == <<"a", "b">>
Names == {NameA, NameB, NameAB}
NameOrder == <<NameA, NameB, NameAB>>

Filters == {<<>>, <<" ">>, <<" ", "b">>, <<"a", "b">>}

JsonSuffix == <<".", "j", "s", "o", "n">>
FileUrl == <<"g">> \o JsonSuffix
HttpUrl == <<"h", "t", "t", "p">>

\* dependency lists of at most MaxDeps entries, duplicates allowed
DepLists == UNION {[1..n -> Names] : n \in 0..MaxDeps}

\* a registry reports the keys of a JSON object: no name twice
NoDuplicates(l) == \A i, j \in DOMAIN l : l[i] = l[j] => i = j
DepSets == {l \in DepLists : NoDuplicates(l)}

\* the dict with the keys of f, in the order of the list order
RECURSIVE DictOf(_, _)
DictOf(f, order) ==
    IF order = <<>> THEN EmptyDict
    ELSE IF Head(order) \in DOMAIN f
         THEN <<<<Head(order), f[Head(order)]>>>> \o DictOf(f, Tail(order))
         ELSE DictOf(f, Tail(order))

\* the number of list entries of a graph
RECURSIVE EdgeCount(_)
EdgeCount(g) == IF g = <<>> THEN 0 ELSE Len(g[1][2]) + EdgeCount(Tail(g))

\* static graphs: any subset of the names as keys, any lists, at most MaxEdges
\* entries in all
TestGraphs ==
    {g \in {DictOf(f, NameOrder) : f \in UNION {[S -> DepLists] : S \in SUBSET Names}} :
        EdgeCount(g) <= MaxEdges}

\* registries: the packages that exist, each with its dependency names
Registries == {g \in TestGraphs : \A i \in DOMAIN g : NoDuplicates(g[i][2])}

LocalConfigs ==
    [package_name : Names, repository_url : {FileUrl}, test_repo_mode : {"local"},
     max_depth : 1..MaxDepth, filter_substring : Filters]

RemoteConfigs ==
    [package_name : Names, repository_url : {HttpUrl}, test_repo_mode : {"remote"},
     max_depth : 1..MaxDepth, filter_substring : Filters]

(***************************************************************************)
(* The scenarios of the documentation, as inputs of their own.             *)
(***************************************************************************)
N(c) == <<c>>

TreeGraph ==
    << <<N("A"), <<N("B"), N("C")>>>>, <<N("B"), <<N("D"), N("E")>>>>,
       <<N("C"), <<N("F")>>>>, <<N("D"), <<>>>>, <<N("E"), <<N("G")>>>>,
       <<N("F"), <<>>>>, <<N("G"), <<>>>> >>

CycleGraph ==
    << <<N("A"), <<N("B")>>>>, <<N("B"), <<N("C")>>>>, <<N("C"), <<N("A"), N("D")>>>>,
       <<N("D"), <<N("E")>>>>, <<N("E"), <<>>>> >>

\* test_reverse of create_test_repositories
ReverseGraph ==
    << <<N("A"), <<N("B"), N("C")>>>>, <<N("B"), <<N("D")>>>>,
       <<N("C"), <<N("D"), N("E")>>>>, <<N("D"), <<N("F")>>>>, <<N("E"), <<N("F")>>>>,
       <<N("F"), <<>>>>, <<N("G"), <<N("D")>>>>, <<N("H"), <<N("F"), N("G")>>>>,
       <<N("I"), <<N("E")>>>> >>

ScenarioConfig(depth) ==
    [package_name |-> N("A"), repository_url |-> FileUrl, test_repo_mode |-> "local",
     max_depth |-> depth, filter_substring |-> <<>>]

Scenarios ==
    { <<ScenarioConfig(3), TreeGraph>>, <<ScenarioConfig(5), CycleGraph>>,
      <<ScenarioConfig(1), CycleGraph>>, <<ScenarioConfig(4), ReverseGraph>> }

(***************************************************************************)
(* NPMAnalyzer.__init__ and the inputs of one analysis.                    *)
(***************************************************************************)
Constructed ==
    /\ pc = "idle"
    /\ cycle_detected = FALSE
    /\ full_graph = EmptyDict
    /\ graph = EmptyDict
    /\ stack = <<>>
    /\ result = None
    /\ popped = {}
    /\ fetched = <<>>
    /\ truncated = {}
    /\ warnings = {}
    /\ pushed = <<>>
    /\ target = <<>>
    /\ scan_graph = EmptyDict
    /\ rstack = <<>>
    /\ visited = {}
    /\ reverse_deps = <<>>

Init ==
    /\ \/ config \in LocalConfigs /\ repository \in TestGraphs
       \/ config \in RemoteConfigs /\ repository \in Registries
       \/ \E s \in Scenarios : config = s[1] /\ repository = s[2]
    /\ Constructed
    /\ budget = 1

(***************************************************************************)
(* should_skip_package                                                     *)
(***************************************************************************)
\* the test without the strip()
should_skip_package_unstripped(package_name) ==
    LET filter_substring == config.filter_substring
    IN  filter_substring # <<>> /\ Contains(filter_substring, package_name)

should_skip_package(package_name) ==
    LET filter_substring == Strip(config.filter_substring)
    IN  filter_substring # <<>> /\ Contains(filter_substring, package_name)

(***************************************************************************)
(* analyze_dependencies, up to the start of the build loop.                *)
(***************************************************************************)
UsesTestRepository ==
    config.test_repo_mode = "local" /\ EndsWith(config.repository_url, JsonSuffix)

\* no call is in progress and the client has a call to make
AtRest == pc \in {"idle", "done", "scanned", "error"} /\ budget > 0

\* the locals of a build, as both builders initialise them
BuildStart(mode) ==
    /\ pc' = mode
    /\ budget' = budget - 1
    /\ cycle_detected' = FALSE
    /\ full_graph' = EmptyDict
    /\ graph' = EmptyDict
    /\ stack' = <<<<config.package_name, 0>>>>
    /\ result' = None
    /\ popped' = {}
    /\ fetched' = <<>>
    /\ truncated' = {}
    /\ warnings' = {}
    /\ pushed' = <<config.package_name>>
    /\ UNCHANGED <<config, repository, scanVars>>

analyze_dependencies_local ==
    /\ AtRest
    /\ config.package_name # <<>>
    /\ UsesTestRepository
    /\ BuildStart("local")

analyze_dependencies_registry ==
    /\ AtRest
    /\ config.package_name # <<>>
    /\ ~UsesTestRepository
    /\ BuildStart("registry")

(***************************************************************************)
(* The build loop: one action per branch of one iteration.                 *)
(***************************************************************************)
current_package == Top(stack)[1]
depth == Top(stack)[2]

\* history of the pops, kept by every branch
Pop ==
    /\ stack # <<>>
    /\ popped' = popped \cup {<<current_package, depth, HasKey(graph, current_package)>>}

\* the for loop without its filter test
RECURSIVE AddDependenciesUnfiltered(_, _, _, _, _)
AddDependenciesUnfiltered(dependencies, g, st, package, d) ==
    IF dependencies = <<>> THEN [graph |-> g, stack |-> st]
    ELSE LET dep_name == Head(dependencies)
         IN  AddDependenciesUnfiltered(
                 Tail(dependencies),
                 Put(g, package, Append(Get(g, package), dep_name)),
                 IF ~HasKey(g, dep_name) THEN Append(st, <<dep_name, d + 1>>) ELSE st,
                 package, d)

\* the for loop with its append moved under the test "dep_name not in graph"
RECURSIVE AddDependenciesAppendIfNew(_, _, _, _, _)
AddDependenciesAppendIfNew(dependencies, g, st, package, d) ==
    IF dependencies = <<>> THEN [graph |-> g, stack |-> st]
    ELSE LET dep_name == Head(dependencies)
         IN  IF ~should_skip_package(dep_name) /\ ~HasKey(g, dep_name)
             THEN AddDependenciesAppendIfNew(
                      Tail(dependencies),
                      Put(g, package, Append(Get(g, package), dep_name)),
                      Append(st, <<dep_name, d + 1>>),
                      package, d)
             ELSE AddDependenciesAppendIfNew(Tail(dependencies), g, st, package, d)

\* the for loop pushing (dep_name, depth) for (dep_name, depth + 1)
RECURSIVE AddDependenciesSameDepth(_, _, _, _, _)
AddDependenciesSameDepth(dependencies, g, st, package, d) ==
    IF dependencies = <<>> THEN [graph |-> g, stack |-> st]
    ELSE LET dep_name == Head(dependencies)
         IN  IF ~should_skip_package(dep_name)
             THEN AddDependenciesSameDepth(
                      Tail(dependencies),
                      Put(g, package, Append(Get(g, package), dep_name)),
                      IF ~HasKey(g, dep_name) THEN Append(st, <<dep_name, d>>) ELSE st,
                      package, d)
             ELSE AddDependenciesSameDepth(Tail(dependencies), g, st, package, d)

\* the for loop without the test "dep_name not in graph" before its push
RECURSIVE AddDependenciesPushAlways(_, _, _, _, _)
AddDependenciesPushAlways(dependencies, g, st, package, d) ==
    IF dependencies = <<>> THEN [graph |-> g, stack |-> st]
    ELSE LET dep_name == Head(dependencies)
         IN  IF ~should_skip_package(dep_name)
             THEN AddDependenciesPushAlways(
                      Tail(dependencies),
                      Put(g, package, Append(Get(g, package), dep_name)),
                      Append(st, <<dep_name, d + 1>>),
                      package, d)
             ELSE AddDependenciesPushAlways(Tail(dependencies), g, st, package, d)

\* the for loop over the dependencies of one expanded package
RECURSIVE AddDependencies(_, _, _, _, _)
AddDependencies(dependencies, g, st, package, d) ==
    IF dependencies = <<>> THEN [graph |-> g, stack |-> st]
    ELSE LET dep_name == Head(dependencies)
         IN  IF ~should_skip_package(dep_name)
             THEN AddDependencies(
                      Tail(dependencies),
                      Put(g, package, Append(Get(g, package), dep_name)),
                      IF ~HasKey(g, dep_name) THEN Append(st, <<dep_name, d + 1>>) ELSE st,
                      package, d)
             ELSE AddDependencies(Tail(dependencies), g, st, package, d)

\* graph[current_package] = [] and then the for loop
Expansion(dependencies) ==
    AddDependencies(dependencies, Put(graph, current_package, <<>>), Rest(stack),
                    current_package, depth)

\* the for loop with its stack.append left out
ExpandWithoutPush(dependencies) ==
    [graph |-> Expansion(dependencies).graph, stack |-> Rest(stack)]

\* what one first visit of current_package does to the graph and the stack
Expand(dependencies) == Expansion(dependencies)

\* the depth test off by one: "if depth > max_depth"
AtDepthBoundOffByOne == depth > config.max_depth

\* "if depth >= max_depth"
AtDepthBound == depth >= config.max_depth

LoopSkip(mode) ==
    /\ pc = mode
    /\ Pop
    /\ should_skip_package(current_package)
    /\ stack' = Rest(stack)
    /\ UNCHANGED <<config, repository, budget, pc, graph, cycle_detected, full_graph, result,
                   fetched, truncated, warnings, pushed, scanVars>>

\* the key test made before the depth test: a key met at the bound sets the flag
LoopTruncateFlagging(mode) ==
    /\ pc = mode
    /\ Pop
    /\ ~should_skip_package(current_package)
    /\ AtDepthBound
    /\ stack' = Rest(stack)
    /\ IF ~HasKey(graph, current_package)
       THEN /\ graph' = Put(graph, current_package, <<>>)
            /\ truncated' = truncated \cup {current_package}
            /\ UNCHANGED cycle_detected
       ELSE /\ cycle_detected' = TRUE
            /\ UNCHANGED <<graph, truncated>>
    /\ UNCHANGED <<config, repository, budget, pc, full_graph, result,
                   fetched, warnings, pushed, scanVars>>

\* the depth branch without its "graph[current_package] = []"
LoopTruncateWithoutKey(mode) ==
    /\ pc = mode
    /\ Pop
    /\ ~should_skip_package(current_package)
    /\ AtDepthBound
    /\ stack' = Rest(stack)
    /\ UNCHANGED <<config, repository, budget, pc, graph, cycle_detected, full_graph, result,
                   fetched, truncated, warnings, pushed, scanVars>>

LoopTruncate(mode) ==
    /\ pc = mode
    /\ Pop
    /\ ~should_skip_package(current_package)
    /\ AtDepthBound
    /\ stack' = Rest(stack)
    /\ IF ~HasKey(graph, current_package)
       THEN /\ graph' = Put(graph, current_package, <<>>)
            /\ truncated' = truncated \cup {current_package}
       ELSE UNCHANGED <<graph, truncated>>
    /\ UNCHANGED <<config, repository, budget, pc, cycle_detected, full_graph, result,
                   fetched, warnings, pushed, scanVars>>

LoopCycle(mode) ==
    /\ pc = mode
    /\ Pop
    /\ ~should_skip_package(current_package)
    /\ ~AtDepthBound
    /\ HasKey(graph, current_package)
    /\ cycle_detected' = TRUE
    /\ stack' = Rest(stack)
    /\ UNCHANGED <<config, repository, budget, pc, graph, full_graph, result,
                   fetched, truncated, warnings, pushed, scanVars>>

\* the names of the entries an expansion left on the stack above the rest of it,
\* in the order of their stack.append
Appended(st) == [i \in 1..(Len(st) - Len(stack) + 1) |-> st[Len(stack) - 1 + i][1]]

\* the same without the test "current_package in graph"
ExpandableAgain(mode) ==
    /\ pc = mode
    /\ Pop
    /\ ~should_skip_package(current_package)
    /\ ~AtDepthBound

\* the package is popped for the first time, below the depth bound
Expandable(mode) ==
    /\ pc = mode
    /\ Pop
    /\ ~should_skip_package(current_package)
    /\ ~AtDepthBound
    /\ ~HasKey(graph, current_package)

(***************************************************************************)
(* dfs_build_from_test_graph                                               *)
(***************************************************************************)
test_graph_skip == LoopSkip("local")

test_graph_truncate == LoopTruncate("local")

test_graph_cycle == LoopCycle("local")

test_graph_expand ==
    /\ Expandable("local")
    /\ HasKey(repository, current_package)
    /\ fetched' = Append(fetched, current_package)
    /\ LET r == Expand(Get(repository, current_package))
       IN  graph' = r.graph /\ stack' = r.stack /\ pushed' = pushed \o Appended(r.stack)
    /\ UNCHANGED <<config, repository, budget, pc, cycle_detected, full_graph, result,
                   truncated, warnings, scanVars>>

test_graph_missing ==
    /\ Expandable("local")
    /\ ~HasKey(repository, current_package)
    /\ fetched' = Append(fetched, current_package)
    /\ graph' = Put(graph, current_package, <<>>)
    /\ stack' = Rest(stack)
    /\ UNCHANGED <<config, repository, budget, pc, cycle_detected, full_graph, result,
                   truncated, warnings, pushed, scanVars>>

\* build_full_test_graph: a copy, plus every key of test_graph the copy lacks
RECURSIVE AddMissingKeys(_, _)
AddMissingKeys(full, packages) ==
    IF packages = <<>> THEN full
    ELSE AddMissingKeys(
             IF ~HasKey(full, Head(packages)[1]) THEN Put(full, Head(packages)[1], <<>>)
             ELSE full,
             Tail(packages))

build_full_test_graph(test_graph, start_package) == AddMissingKeys(test_graph, test_graph)

\* the return without line 228: the snapshot is the graph that was built
test_graph_return_built_only ==
    /\ pc = "local"
    /\ stack = <<>>
    /\ full_graph' = Update(full_graph, graph)
    /\ result' = graph
    /\ pc' = "done"
    /\ UNCHANGED <<config, repository, budget, cycle_detected, buildVars, scanVars>>

\* the loop ends: dfs_build_from_test_graph returns, analyze_dependencies stores
\* the full graph and returns
test_graph_return ==
    /\ pc = "local"
    /\ stack = <<>>
    /\ LET updated == Update(full_graph, graph)
       IN  full_graph' = build_full_test_graph(repository, config.package_name)
    /\ result' = graph
    /\ pc' = "done"
    /\ UNCHANGED <<config, repository, budget, cycle_detected, buildVars, scanVars>>

(***************************************************************************)
(* dfs_build_dependency_graph                                              *)
(***************************************************************************)
registry_skip == LoopSkip("registry")

registry_truncate == LoopTruncate("registry")

registry_cycle == LoopCycle("registry")

\* get_package_info and extract_dependencies succeed
registry_expand ==
    /\ Expandable("registry")
    /\ HasKey(repository, current_package)
    /\ fetched' = Append(fetched, current_package)
    /\ LET r == Expand(Get(repository, current_package))
       IN  graph' = r.graph /\ stack' = r.stack /\ pushed' = pushed \o Appended(r.stack)
    /\ UNCHANGED <<config, repository, budget, pc, cycle_detected, full_graph, result,
                   truncated, warnings, scanVars>>

\* the except branch without its "graph[current_package] = []"
registry_fetch_error_without_key ==
    /\ Expandable("registry")
    /\ fetched' = Append(fetched, current_package)
    /\ warnings' = warnings \cup {current_package}
    /\ stack' = Rest(stack)
    /\ UNCHANGED <<config, repository, budget, pc, graph, cycle_detected, full_graph,
                   result, truncated, pushed, scanVars>>

\* the except branch raising again when the package is the start package
registry_fetch_error_raising ==
    /\ Expandable("registry")
    /\ fetched' = Append(fetched, current_package)
    /\ warnings' = warnings \cup {current_package}
    /\ stack' = Rest(stack)
    /\ IF current_package = config.package_name
       THEN pc' = "error" /\ result' = "TransportError" /\ UNCHANGED graph
       ELSE graph' = Put(graph, current_package, <<>>) /\ UNCHANGED <<pc, result>>
    /\ UNCHANGED <<config, repository, budget, cycle_detected, full_graph,
                   truncated, pushed, scanVars>>

\* get_package_info raises: the package does not exist, or the network fails
registry_fetch_error ==
    /\ Expandable("registry")
    /\ fetched' = Append(fetched, current_package)
    /\ warnings' = warnings \cup {current_package}
    /\ graph' = Put(graph, current_package, <<>>)
    /\ stack' = Rest(stack)
    /\ UNCHANGED <<config, repository, budget, pc, cycle_detected, full_graph, result,
                   truncated, pushed, scanVars>>

registry_return ==
    /\ pc = "registry"
    /\ stack = <<>>
    /\ full_graph' = Update(full_graph, graph)
    /\ result' = graph
    /\ pc' = "done"
    /\ UNCHANGED <<config, repository, budget, cycle_detected, buildVars, scanVars>>

(***************************************************************************)
(* One analysis: the inputs, then analyze_dependencies to its return.      *)
(***************************************************************************)
Next ==
    \/ analyze_dependencies_local
    \/ analyze_dependencies_registry
    \/ test_graph_skip
    \/ test_graph_truncate
    \/ test_graph_cycle
    \/ test_graph_expand
    \/ test_graph_missing
    \/ test_graph_return
    \/ registry_skip
    \/ registry_truncate
    \/ registry_cycle
    \/ registry_expand
    \/ registry_fetch_error
    \/ registry_return

Spec == Init /\ [][Next]_vars

(***************************************************************************)
(* analyze_dependencies: the calls that raise before any build.            *)
(***************************************************************************)
\* "if not package_name: raise", before anything is reset
analyze_dependencies_no_package ==
    /\ AtRest
    /\ config.package_name = <<>>
    /\ pc' = "error"
    /\ result' = "ConfigurationError"
    /\ budget' = budget - 1
    /\ UNCHANGED <<config, repository, cycle_detected, full_graph, buildVars, scanVars>>

\* load_test_repository raises: the file is missing or is not JSON
analyze_dependencies_load_error ==
    /\ AtRest
    /\ config.package_name # <<>>
    /\ UsesTestRepository
    /\ cycle_detected' = FALSE
    /\ full_graph' = EmptyDict
    /\ pc' = "error"
    /\ result' = "DataError"
    /\ budget' = budget - 1
    /\ graph' = EmptyDict
    /\ stack' = <<>>
    /\ popped' = {}
    /\ fetched' = <<>>
    /\ truncated' = {}
    /\ warnings' = {}
    /\ pushed' = <<>>
    /\ UNCHANGED <<config, repository, scanVars>>

(***************************************************************************)
(* find_reverse_dependencies                                               *)
(***************************************************************************)
\* the locals of the scan, as find_reverse_dependencies(t, g) initialises them
ScanStart(t, g) ==
    /\ pc' = "scan"
    /\ budget' = budget - 1
    /\ target' = t
    /\ scan_graph' = g
    /\ reverse_deps' = <<>>
    /\ rstack' = [i \in DOMAIN g |-> g[i][1]]
    /\ visited' = {}
    /\ result' = None
    /\ UNCHANGED <<config, repository, cycle_detected, full_graph, buildVars>>

\* "for dep in graph[current_package]: if dep not in visited: stack.append(dep)"
RECURSIVE PushUnvisited(_, _, _)
PushUnvisited(deps, st, seen) ==
    IF deps = <<>> THEN st
    ELSE PushUnvisited(Tail(deps),
                       IF Head(deps) \notin seen THEN Append(st, Head(deps)) ELSE st,
                       seen)

scan_visited ==
    /\ pc = "scan"
    /\ rstack # <<>>
    /\ Top(rstack) \in visited
    /\ rstack' = Rest(rstack)
    /\ UNCHANGED <<config, repository, budget, pc, cycle_detected, full_graph, result,
                   buildVars, target, scan_graph, visited, reverse_deps>>

\* the scan without its visited test
scan_visit_again ==
    /\ pc = "scan"
    /\ rstack # <<>>
    /\ LET current == Top(rstack)
       IN  /\ visited' = visited \cup {current}
           /\ reverse_deps' =
                  IF HasKey(scan_graph, current) /\ InList(target, Get(scan_graph, current))
                  THEN Append(reverse_deps, current)
                  ELSE reverse_deps
           /\ rstack' =
                  IF HasKey(scan_graph, current)
                  THEN PushUnvisited(Get(scan_graph, current), Rest(rstack), visited')
                  ELSE Rest(rstack)
    /\ UNCHANGED <<config, repository, budget, pc, cycle_detected, full_graph, result,
                   buildVars, target, scan_graph>>

scan_visit ==
    /\ pc = "scan"
    /\ rstack # <<>>
    /\ Top(rstack) \notin visited
    /\ LET current == Top(rstack)
       IN  /\ visited' = visited \cup {current}
           /\ reverse_deps' =
                  IF HasKey(scan_graph, current) /\ InList(target, Get(scan_graph, current))
                  THEN Append(reverse_deps, current)
                  ELSE reverse_deps
           /\ rstack' =
                  IF HasKey(scan_graph, current)
                  THEN PushUnvisited(Get(scan_graph, current), Rest(rstack), visited')
                  ELSE Rest(rstack)
    /\ UNCHANGED <<config, repository, budget, pc, cycle_detected, full_graph, result,
                   buildVars, target, scan_graph>>

scan_return ==
    /\ pc = "scan"
    /\ rstack = <<>>
    /\ result' = reverse_deps
    /\ pc' = "scanned"
    /\ UNCHANGED <<config, repository, budget, cycle_detected, full_graph, buildVars,
                   scanVars>>

\* the packages a client asks the dependents of
Targets == Names \cup Keys(repository)

\* a client calls find_reverse_dependencies with a mapping of its own
find_reverse_dependencies ==
    /\ AtRest
    /\ \E t \in Targets : ScanStart(t, repository)

(***************************************************************************)
(* analyze_reverse_dependencies                                            *)
(***************************************************************************)
\* the error raised only while no build has run
analyze_reverse_dependencies_error_never_built ==
    /\ AtRest
    /\ full_graph = EmptyDict
    /\ popped = {}
    /\ pc' = "error"
    /\ result' = "StateError"
    /\ budget' = budget - 1
    /\ UNCHANGED <<config, repository, cycle_detected, full_graph, buildVars, scanVars>>

analyze_reverse_dependencies_error ==
    /\ AtRest
    /\ full_graph = EmptyDict
    /\ pc' = "error"
    /\ result' = "StateError"
    /\ budget' = budget - 1
    /\ UNCHANGED <<config, repository, cycle_detected, full_graph, buildVars, scanVars>>

\* the query without its test of self.full_graph
analyze_reverse_dependencies_unchecked ==
    /\ AtRest
    /\ \E t \in Targets : ScanStart(t, full_graph)

analyze_reverse_dependencies ==
    /\ AtRest
    /\ full_graph # EmptyDict
    /\ \E t \in Targets : ScanStart(t, full_graph)

(***************************************************************************)
(* The scan alone: find_reverse_dependencies on any mapping, its keys in   *)
(* any order.                                                              *)
(***************************************************************************)
KeyOrders == {o \in [1..Cardinality(Names) -> Names] : NoDuplicates(o)}

ScanGraphs == {DictOf(AsMap(g), o) : g \in TestGraphs, o \in KeyOrders}

ScanInit ==
    /\ config \in {c \in LocalConfigs :
                     c.package_name = NameA /\ c.max_depth = 1 /\ c.filter_substring = <<>>}
    /\ repository \in ScanGraphs
    /\ Constructed
    /\ budget = 1

ScanNext ==
    \/ find_reverse_dependencies
    \/ scan_visited
    \/ scan_visit
    \/ scan_return

ScanSpec == ScanInit /\ [][ScanNext]_vars

(***************************************************************************)
(* The life of one analyzer: MaxCalls calls of its client, in any order.   *)
(* The inputs are over two names, with every pairing of mode and url and   *)
(* with a missing package name.                                            *)
(***************************************************************************)
LifeNames == {NameA, NameB}
LifeFilters == {<<>>, <<"b", " ">>}
LifeGraphs == {g \in TestGraphs : \A i \in DOMAIN g : {g[i][1]} \cup Elems(g[i][2]) \subseteq LifeNames}

LifeRegistries == {g \in LifeGraphs : \A i \in DOMAIN g : NoDuplicates(g[i][2])}

LifeConfigs ==
    [package_name : LifeNames \cup {<<>>}, repository_url : {FileUrl, HttpUrl},
     test_repo_mode : {"local", "remote"}, max_depth : 1..MaxDepth,
     filter_substring : LifeFilters]

LifeInit ==
    /\ config \in LifeConfigs
    /\ repository \in
           IF config.test_repo_mode = "local" /\ EndsWith(config.repository_url, JsonSuffix)
           THEN LifeGraphs ELSE LifeRegistries
    /\ Constructed
    /\ budget = MaxCalls

LifeNext ==
    \/ analyze_dependencies_no_package
    \/ analyze_dependencies_load_error
    \/ analyze_dependencies_local
    \/ analyze_dependencies_registry
    \/ test_graph_skip
    \/ test_graph_truncate
    \/ test_graph_cycle
    \/ test_graph_expand
    \/ test_graph_missing
    \/ test_graph_return
    \/ registry_skip
    \/ registry_truncate
    \/ registry_cycle
    \/ registry_expand
    \/ registry_fetch_error
    \/ registry_return
    \/ analyze_reverse_dependencies_error
    \/ analyze_reverse_dependencies
    \/ scan_visited
    \/ scan_visit
    \/ scan_return

LifeSpec == LifeInit /\ [][LifeNext]_vars

\* the program is sequential and runs on: a step that can be taken is taken
LiveSpec == LifeInit /\ [][LifeNext]_vars /\ WF_vars(LifeNext)

(***************************************************************************)
(* The same with the documented reverse-dependency scenario among the      *)
(* inputs: test_reverse, from A, with the depth bound 1 and 4.             *)
(***************************************************************************)
QueryInit ==
    \/ LifeInit
    \/ /\ config \in {ScenarioConfig(1), ScenarioConfig(4)}
       /\ repository = ReverseGraph
       /\ Constructed
       /\ budget = MaxCalls

QuerySpec == QueryInit /\ [][LifeNext]_vars

(***************************************************************************)
(* One analyzer used for several analyses: between two calls its client    *)
(* may change the configuration, which every call reads anew.              *)
(***************************************************************************)
SessionConfigs ==
    {c \in LifeConfigs :
        /\ c.max_depth \in {1, MaxDepth}
        /\ c.test_repo_mode = "local" <=> c.repository_url = FileUrl}

SessionGraphs == {g \in LifeGraphs : EdgeCount(g) <= MaxDeps}

\* the dependency source can serve the configuration c: a registry names no
\* dependency of a package twice
Serves(g, c) ==
    \/ c.test_repo_mode = "local" /\ EndsWith(c.repository_url, JsonSuffix)
    \/ \A i \in DOMAIN g : NoDuplicates(g[i][2])

\* the client assigns the analyzer's config between two calls
reconfigure ==
    /\ AtRest
    /\ \E c \in SessionConfigs :
        /\ c # config
        /\ Serves(repository, c)
        /\ config' = c
    /\ pc' = "idle"
    /\ UNCHANGED <<repository, budget, cycle_detected, full_graph, result, buildVars,
                   scanVars>>

SessionInit ==
    /\ config \in SessionConfigs
    /\ repository \in SessionGraphs
    /\ Serves(repository, config)
    /\ Constructed
    /\ budget = MaxCalls

SessionNext ==
    \/ reconfigure
    \/ LifeNext

SessionSpec == SessionInit /\ [][SessionNext]_vars

(***************************************************************************)
(* Graphs as relations.                                                    *)
(***************************************************************************)
Successors(g, n) == IF HasKey(g, n) THEN Elems(Get(g, n)) ELSE {}

\* the names reachable from the set S along the edges of g, S included
RECURSIVE Reachable(_, _)
Reachable(g, S) ==
    LET T == S \cup UNION {Successors(g, n) : n \in S}
    IN  IF T = S THEN S ELSE Reachable(g, T)

OnCycle(g, n) == n \in Reachable(g, Successors(g, n))

\* a list without its excluded names
RECURSIVE Kept(_)
Kept(l) ==
    IF l = <<>> THEN <<>>
    ELSE IF should_skip_package(Head(l)) THEN Kept(Tail(l))
         ELSE <<Head(l)>> \o Kept(Tail(l))

Building == pc \in {"local", "registry"}
Returned == pc = "done"

\* no key and no list entry of g is excluded
NoExcluded(g) ==
    \A i \in DOMAIN g :
        /\ ~should_skip_package(g[i][1])
        /\ \A j \in DOMAIN g[i][2] : ~should_skip_package(g[i][2][j])

(***************************************************************************)
(* C1: the graph a build returns, and the graph under construction at      *)
(* every step, has no excluded name as a key or inside an adjacency list.  *)
(***************************************************************************)
C1_NoExcludedInGraph ==
    /\ NoExcluded(graph)
    /\ Returned => result = graph /\ NoExcluded(result)

\* a build returned whose source lists an excluded name under an expanded package
C1_Witness ==
    /\ Returned
    /\ \E k \in Keys(result) :
        /\ InList(k, fetched)
        /\ HasKey(repository, k)
        /\ \E dep \in Elems(Get(repository, k)) : should_skip_package(dep)
        /\ Get(result, k) # <<>>

(***************************************************************************)
(* C2: the cycle flag is set exactly when some pop of this analysis took a *)
(* package that was not excluded, was already a key and was below the      *)
(* depth bound.                                                            *)
(***************************************************************************)
RepeatedPop(p) ==
    /\ ~should_skip_package(p[1])
    /\ p[3]
    /\ p[2] < config.max_depth

C2_FlagIffRepeatedPop ==
    cycle_detected <=> \E p \in popped : RepeatedPop(p)

\* a build returned with the flag set, having also met a key at the depth bound
C2_Witness ==
    /\ Returned
    /\ cycle_detected
    /\ \E p \in popped : p[3] /\ p[2] >= config.max_depth

(***************************************************************************)
(* C3: when the returned graph holds a dependency cycle (its packages all  *)
(* expanded, none excluded), the build returns with the cycle flag set; and*)
(* for {A:[B], B:[C], C:[A,D], D:[E], E:[]} from A with depth 5 the result *)
(* is the source and the flag is set.  The code does not do this.          *)
(***************************************************************************)
C3_CycleSetsFlag ==
    Returned =>
        /\ (\E n \in Keys(result) : OnCycle(result, n)) => cycle_detected
        /\ (repository = CycleGraph /\ config = ScenarioConfig(5)) =>
               AsMap(result) = AsMap(CycleGraph) /\ cycle_detected

(***************************************************************************)
(* C4: find_reverse_dependencies(T, g) returns each key of g whose list    *)
(* holds T exactly once, and nothing else.                                 *)
(***************************************************************************)
DirectDependents(g, t) == {n \in Keys(g) : InList(t, Get(g, n))}

C4_ReverseIsDirectDependents ==
    pc = "scanned" =>
        /\ Elems(result) = DirectDependents(scan_graph, target)
        /\ NoDuplicates(result)

\* a scan returned a dependent, having met a name that reaches the target only
\* through others, a name that is no key, and a key twice
C4_Witness ==
    /\ pc = "scanned"
    /\ result # <<>>
    /\ \E n \in Keys(scan_graph) :
        /\ ~InList(target, Get(scan_graph, n))
        /\ target \in Reachable(scan_graph, {n})
        /\ n # target
    /\ \E n \in visited : ~HasKey(scan_graph, n)
    /\ \E n \in Keys(scan_graph) : OnCycle(scan_graph, n)

(***************************************************************************)
(* C5: round trip.  As claimed: from a static graph, with a depth bound    *)
(* large enough, every key of the source is a key of the result, with the  *)
(* source's list less its excluded names.  This fails for the keys the     *)
(* start does not reach.  As amended: it holds of every key of the source  *)
(* that the start reaches through packages that are not excluded.          *)
(***************************************************************************)
\* the source without its excluded keys and list entries
RECURSIVE KeptGraph(_)
KeptGraph(d) ==
    IF d = <<>> THEN <<>>
    ELSE IF should_skip_package(d[1][1]) THEN KeptGraph(Tail(d))
         ELSE <<<<d[1][1], Kept(d[1][2])>>>> \o KeptGraph(Tail(d))

SetMax(S) == CHOOSE x \in S : \A y \in S : y <= x

\* the number of edges of the longest path of g from n that repeats no name
RECURSIVE LongestPath(_, _, _)
LongestPath(g, n, seen) ==
    LET next == Successors(g, n) \ seen
    IN  IF next = {} THEN 0
        ELSE 1 + SetMax({LongestPath(g, m, seen \cup {m}) : m \in next})

\* what the start reaches through packages that are not excluded
ReachedFromStart ==
    IF should_skip_package(config.package_name) THEN {}
    ELSE Reachable(KeptGraph(repository), {config.package_name})

\* the depth bound exceeds every path the traversal can follow
DepthCoversClosure ==
    config.max_depth >
        LongestPath(KeptGraph(repository), config.package_name, {config.package_name})

Reproduced(k) ==
    /\ HasKey(result, k)
    /\ Get(result, k) = Kept(Get(repository, k))

\* C5 as claimed: every key of the source is reproduced
C5_RoundTripEveryKey ==
    (Returned /\ UsesTestRepository /\ DepthCoversClosure) =>
        \A k \in Keys(repository) : Reproduced(k)

\* C5 as amended: every key of the source that the start reaches is reproduced
C5_RoundTripReachedKeys ==
    (Returned /\ UsesTestRepository /\ DepthCoversClosure) =>
        \A k \in Keys(repository) \cap ReachedFromStart : Reproduced(k)

\* a build returned that reproduced three keys, one of them with a filtered list
C5_Witness ==
    /\ Returned /\ UsesTestRepository /\ DepthCoversClosure
    /\ Cardinality(Keys(repository) \cap ReachedFromStart) >= 2
    /\ \E k \in Keys(repository) \cap ReachedFromStart :
           Get(result, k) # Get(repository, k) /\ Get(result, k) # <<>>

(***************************************************************************)
(* C6: every build that was started returns, and every scan that was       *)
(* started returns.                                                        *)
(***************************************************************************)
C6_Terminates ==
    /\ [](Building => <>(pc = "done"))
    /\ [](pc = "scan" => <>(pc = "scanned"))

\* a build over a graph with a cycle and a repeated entry returned, and a scan
\* of that graph returned
C6_Witness ==
    /\ pc = "scanned"
    /\ fetched # <<>>
    /\ \E n \in Keys(scan_graph) : OnCycle(scan_graph, n)
    /\ \E n \in Keys(scan_graph) : ~NoDuplicates(Get(scan_graph, n))

(***************************************************************************)
(* C7: a package inserted as a key because it was popped at the depth      *)
(* bound keeps an empty list and the dependency source is never asked for  *)
(* it, also when it is popped again at a smaller depth; with max_depth 1   *)
(* the result is the start with its kept dependencies, each of them a key  *)
(* with an empty list.                                                     *)
(***************************************************************************)
DepthOneGraph ==
    LET l == Kept(Get(repository, config.package_name))
    IN  [k \in {config.package_name} \cup Elems(l) |->
            IF k = config.package_name THEN l ELSE <<>>]

C7_TruncatedStayEmpty ==
    /\ \A n \in truncated :
        /\ HasKey(graph, n)
        /\ Get(graph, n) = <<>>
        /\ ~InList(n, fetched)
        /\ Returned => HasKey(result, n) /\ Get(result, n) = <<>>
    /\ ( /\ Returned
         /\ config.max_depth = 1
         /\ ~should_skip_package(config.package_name)
         /\ HasKey(repository, config.package_name)
         /\ config.package_name \notin warnings )
       => AsMap(result) = DepthOneGraph

\* a package with dependencies was truncated and later popped at a smaller depth
C7_Witness ==
    /\ Returned
    /\ \E n \in truncated :
        /\ HasKey(repository, n)
        /\ Get(repository, n) # <<>>
        /\ \E p \in popped : p[1] = n /\ p[3] /\ p[2] < config.max_depth

(***************************************************************************)
(* C8: when the start package contains the trimmed, non-empty filter, the  *)
(* build returns an empty graph, never asks the dependency source and      *)
(* leaves the cycle flag false.                                            *)
(***************************************************************************)
StartExcluded ==
    /\ Strip(config.filter_substring) # <<>>
    /\ Contains(Strip(config.filter_substring), config.package_name)

C8_ExcludedStartEmptyGraph ==
    StartExcluded =>
        /\ graph = EmptyDict
        /\ fetched = <<>>
        /\ ~cycle_detected
        /\ Returned => result = EmptyDict

\* a build returned whose start is excluded by a filter written with spaces
C8_Witness ==
    /\ Returned
    /\ StartExcluded
    /\ Strip(config.filter_substring) # config.filter_substring
    /\ popped # {}

(***************************************************************************)
(* C9: in a registry build, a step whose fetch fails makes the package a   *)
(* key with an empty list, leaves the build running, and leaves the graph, *)
(* the frontier and the flag as the expansion of a package without         *)
(* dependencies would.                                                     *)
(***************************************************************************)
C9_FetchErrorIsALeaf ==
    [][ (pc = "registry" /\ warnings' # warnings) =>
            /\ pc' = "registry"
            /\ HasKey(graph', current_package)
            /\ Get(graph', current_package) = <<>>
            /\ [graph |-> graph', stack |-> stack'] = Expand(<<>>)
            /\ cycle_detected' = cycle_detected
            /\ full_graph' = full_graph
            /\ result' = result ]_vars

\* a build returned after a failed fetch that was followed by other fetches
C9_Witness ==
    /\ Returned
    /\ \E i \in DOMAIN fetched : i < Len(fetched) /\ fetched[i] \in warnings

(***************************************************************************)
(* C10: as claimed, a failed fetch of the start package aborts the call    *)
(* and no graph is returned.  As amended: a failed fetch of the start      *)
(* package is recovered like any other, and the call returns the graph     *)
(* whose only key is the start package, with an empty list, the cycle flag *)
(* false.                                                                  *)
(***************************************************************************)
StartFetchFailed == config.package_name \in warnings

\* C10 as claimed: after a failed fetch of the start package no graph is returned
C10_StartFetchErrorAborts ==
    StartFetchFailed => ~Returned

\* C10 as amended: a failed fetch of the start package leaves the graph
\* {start: []}, which the call returns
C10_StartFetchErrorIsALeaf ==
    StartFetchFailed =>
        /\ pc \in {"registry", "done"}
        /\ AsMap(graph) = [k \in {config.package_name} |-> <<>>]
        /\ stack = <<>>
        /\ ~cycle_detected
        /\ Returned => result = graph /\ full_graph = graph

\* the fetch of an existing start package failed and the call returned
C10_Witness ==
    /\ Returned
    /\ StartFetchFailed
    /\ HasKey(repository, config.package_name)
    /\ Get(repository, config.package_name) # <<>>

(***************************************************************************)
(* C11: every call of analyze_dependencies, also one that fails, resets    *)
(* the cycle flag and the full-graph snapshot when it starts, so that      *)
(* after the call they show that call alone: after a call that failed the  *)
(* flag is false and the snapshot empty, after a call that returned the    *)
(* flag tells of that build's pops and the snapshot is that call's.  The   *)
(* code does not do this for a call without a package name.                *)
(***************************************************************************)
AnalyzeFailed == pc = "error" /\ result \in {"ConfigurationError", "DataError"}

C11_StateResetEveryCall ==
    /\ AnalyzeFailed => ~cycle_detected /\ full_graph = EmptyDict
    /\ Returned =>
        /\ cycle_detected <=> \E p \in popped : RepeatedPop(p)
        /\ full_graph = IF UsesTestRepository
                        THEN build_full_test_graph(repository, config.package_name)
                        ELSE result

(***************************************************************************)
(* C12: on an analyzer on which no build has run, a call of                *)
(* analyze_reverse_dependencies raises the state error and starts no scan, *)
(* so that it returns no result.                                           *)
(***************************************************************************)
NoBuildYet == popped = {} /\ ~Building

C12_QueryBeforeBuildFails ==
    /\ (AtRest /\ NoBuildYet) =>
        /\ ENABLED analyze_reverse_dependencies_error
        /\ ~ENABLED analyze_reverse_dependencies
    /\ pc \in {"scan", "scanned"} => ~NoBuildYet
    /\ NoBuildYet => pc \in {"idle", "error"}
    /\ (NoBuildYet /\ pc = "error") =>
           result \in {"StateError", "ConfigurationError", "DataError"}

\* the first call made on the analyzer was the reverse query, and it raised
C12_Witness ==
    /\ pc = "error"
    /\ result = "StateError"
    /\ NoBuildYet
    /\ budget = MaxCalls - 1
    /\ config.package_name # <<>>

(***************************************************************************)
(* C13: after a build from a test file, analyze_reverse_dependencies(T) is *)
(* answered over the whole file, not over the graph that was built: its    *)
(* result holds exactly the keys of the file whose list holds T, whatever  *)
(* the start package, the depth bound and the filter.  As claimed, for     *)
(* every file; this fails for the file {}, after which the query raises    *)
(* the state error.  As amended: for every file with at least one key.     *)
(***************************************************************************)
\* a reverse query made after a build from the test file raised
RaisedAfterLocalBuild ==
    /\ pc = "error" /\ result = "StateError"
    /\ UsesTestRepository
    /\ popped # {}

AnsweredOverSource ==
    /\ (pc \in {"scan", "scanned"} /\ UsesTestRepository) => scan_graph = repository
    /\ (pc = "scanned" /\ UsesTestRepository) =>
        /\ Elems(result) = DirectDependents(repository, target)
        /\ (repository = ReverseGraph /\ target = N("D")) =>
               Elems(result) = {N("B"), N("C"), N("G")}

C14_KeyedOnceNeverAgain ==
    [][ Building =>
            /\ \A k \in Keys(graph) :
                   HasKey(graph', k) /\ Get(graph', k) = Get(graph, k)
            /\ fetched' # fetched =>
                   /\ Len(fetched') = Len(fetched) + 1
                   /\ ~HasKey(graph, fetched'[Len(fetched')])
                   /\ ~InList(fetched'[Len(fetched')], fetched)
            /\ NoDuplicates(fetched') ]_vars

\* a build returned in which a package whose fetch had failed was popped again
\* below the depth bound, and a package on a cycle was expanded
C14_Witness ==
    /\ Returned
    /\ \E p \in popped : p[3] /\ p[2] < config.max_depth /\ p[1] \in warnings
    /\ \E n \in Elems(fetched) \ warnings : OnCycle(result, n)

(***************************************************************************)
(* C15: for every package the build expands (the dependency source was     *)
(* asked for it and answered), the list in the graph is the list the       *)
(* source reports with the excluded names removed, in the source's order,  *)
(* repeated names kept, also the names that were keys already.             *)
(***************************************************************************)
Expanded == {n \in Elems(fetched) \ warnings : HasKey(repository, n)}

C15_ExpandedListIsKeptSourceList ==
    /\ \A n \in Expanded :
           HasKey(graph, n) /\ Get(graph, n) = Kept(Get(repository, n))
    /\ Returned =>
           \A n \in Expanded :
               HasKey(result, n) /\ Get(result, n) = Kept(Get(repository, n))

\* a build returned that expanded a package listing itself and an excluded name
C15_Witness ==
    /\ Returned
    /\ \E n \in Expanded :
        /\ InList(n, Get(result, n))
        /\ Get(result, n) # Get(repository, n)

(***************************************************************************)
(* C16: the frontier is a stack.  Every step of a build takes the entry    *)
(* appended last and leaves the entries under it as they are, and an       *)
(* expansion appends the dependencies it pushes in the source's order, one *)
(* level deeper.  So of two siblings x, y pushed in this order, y and      *)
(* everything pushed for y is popped before the entry of x.                *)
(***************************************************************************)
\* the entries of stack' above what stack held under its last entry
NewEntries == SubSeq(stack', Len(stack), Len(stack'))

\* what an expansion of the package n at depth d appends: the kept dependencies
\* that are no key at their turn
PushedBy(n, d) ==
    LET NotYetKey(dep) == ~HasKey(graph, dep) /\ dep # n
        new == SelectSeq(Kept(Get(repository, n)), NotYetKey)
    IN  [i \in DOMAIN new |-> <<new[i], d + 1>>]

C16_SiblingsLastInFirstOut ==
    [][ (Building /\ stack # <<>>) =>
            LET last == stack[Len(stack)]
            IN  /\ popped' = popped \cup {<<last[1], last[2], HasKey(graph, last[1])>>}
                /\ Len(stack') >= Len(stack) - 1
                /\ SubSeq(stack', 1, Len(stack) - 1) = SubSeq(stack, 1, Len(stack) - 1)
                /\ NewEntries # <<>> =>
                       /\ HasKey(repository, last[1])
                       /\ NewEntries = PushedBy(last[1], last[2]) ]_vars

\* an earlier sibling waits on the stack under an entry pushed for a later one
C16_Witness ==
    /\ Building
    /\ \E i \in 1..(Len(stack) - 1) :
        /\ stack[i][2] >= 1
        /\ stack[i + 1][2] > stack[i][2]
        /\ stack[i + 1][1] # stack[i][1]

(***************************************************************************)
(* C17: when a build returns, every name inside a list of the returned     *)
(* graph is a key of the returned graph; while it runs, every name inside  *)
(* a list is a key or waits on the stack.                                  *)
(***************************************************************************)
Listed(g) == UNION {Elems(g[i][2]) : i \in DOMAIN g}

C17_ListedNamesAreKeys ==
    /\ Building => Listed(graph) \subseteq Keys(graph) \cup {stack[i][1] : i \in DOMAIN stack}
    /\ Returned => Listed(result) \subseteq Keys(result)

\* a build returned whose graph lists a truncated package, a package the source
\* does not have, and a package of a cycle
C17_Witness ==
    /\ Returned
    /\ Listed(result) \cap truncated # {}
    /\ \E n \in Listed(result) : ~HasKey(repository, n)
    /\ \E n \in Listed(result) : OnCycle(result, n)

(***************************************************************************)
(* C18: every key of the graph is reached from the start package in the    *)
(* source by a path of at most max_depth edges through packages that are   *)
(* not excluded; every edge of the graph is an edge of the source; every   *)
(* entry of the stack has a depth of at most max_depth, and its package is *)
(* reached by a path of at most that depth.                                *)
(***************************************************************************)
\* the names reached from the set S along at most k edges of g, S included
RECURSIVE ReachWithin(_, _, _)
ReachWithin(g, S, k) ==
    IF k = 0 THEN S
    ELSE ReachWithin(g, S \cup UNION {Successors(g, n) : n \in S}, k - 1)

WithinDepth(n, d) == n \in ReachWithin(KeptGraph(repository), {config.package_name}, d)

SoundGraph(g) ==
    /\ \A k \in Keys(g) : ~should_skip_package(k) /\ WithinDepth(k, config.max_depth)
    /\ \A k \in Keys(g) : \A m \in Elems(Get(g, k)) :
           HasKey(repository, k) /\ InList(m, Get(repository, k))

C18_SoundAndDepthBounded ==
    /\ Building =>
        /\ \A i \in DOMAIN stack :
               stack[i][2] <= config.max_depth /\ WithinDepth(stack[i][1], stack[i][2])
        /\ SoundGraph(graph)
    /\ Returned => SoundGraph(result)

\* a build returned that truncated a package and left out a package the start
\* reaches only beyond the depth bound
C18_Witness ==
    /\ Returned
    /\ truncated # {}
    /\ \E n \in ReachedFromStart : ~HasKey(result, n)
    /\ \E k \in truncated : HasKey(repository, k) /\ Kept(Get(repository, k)) # <<>>

(***************************************************************************)
(* C19: the cycle flag becomes true only at the pop of a name that was     *)
(* pushed on the stack at least twice in this build, each time while it    *)
(* was no key; a dependency that is a key when its parent is expanded is   *)
(* not pushed.  So a build that pushes every name at most once, as the one *)
(* of {A:[B,C], B:[D,E], C:[F], D:[], E:[G], F:[], G:[]}, returns with the *)
(* flag false.                                                             *)
(***************************************************************************)
Count(n, l) == Cardinality({i \in DOMAIN l : l[i] = n})

C19_FlagOnlyForTwicePushed ==
    [][ Building =>
            /\ (cycle_detected' /\ ~cycle_detected) =>
                   Count(stack[Len(stack)][1], pushed) >= 2
            /\ \A i \in (Len(pushed) + 1)..Len(pushed') :
                   /\ ~HasKey(graph, pushed'[i])
                   /\ pushed'[i] # stack[Len(stack)][1]
            /\ NoDuplicates(pushed') => ~cycle_detected'
            /\ repository = TreeGraph => NoDuplicates(pushed') ]_vars

\* a build returned with the flag set for a name pushed twice, its start package
\* on a cycle of the result and pushed once
C19_Witness ==
    /\ Returned
    /\ cycle_detected
    /\ OnCycle(result, config.package_name)
    /\ Count(config.package_name, pushed) = 1
    /\ \E n \in Keys(result) : InList(config.package_name, Get(result, n))

(***************************************************************************)
(* C20: analyze_reverse_dependencies raises the state error exactly when   *)
(* the stored full graph is empty, which is so before any build and also   *)
(* after a build that returned with an empty snapshot; in every other      *)
(* state it returns what find_reverse_dependencies finds in the snapshot.  *)
(* Neither way does it change the snapshot or the cycle flag.              *)
(***************************************************************************)
C20_QueryRaisesIffSnapshotEmpty ==
    [][ /\ AtRest =>
            /\ ENABLED analyze_reverse_dependencies_error <=> full_graph = EmptyDict
            /\ ENABLED analyze_reverse_dependencies <=> full_graph # EmptyDict
        /\ (pc' = "error" /\ result' = "StateError") =>
            /\ full_graph = EmptyDict
            /\ UNCHANGED <<full_graph, cycle_detected, scanVars>>
        /\ (pc # "scan" /\ pc' = "scan") =>
            /\ full_graph # EmptyDict
            /\ scan_graph' = full_graph
        /\ (pc = "scan" \/ pc' = "scan") => UNCHANGED <<full_graph, cycle_detected>>
        /\ (pc = "scan" /\ pc' = "scanned") =>
            /\ scan_graph = full_graph
            /\ result' = reverse_deps
            /\ Elems(result') = DirectDependents(full_graph, target)
            /\ NoDuplicates(result') ]_vars

\* the query raised after a build from an empty test file had returned a graph
C20_Witness ==
    /\ pc = "error"
    /\ result = "StateError"
    /\ UsesTestRepository
    /\ graph # EmptyDict
    /\ full_graph = EmptyDict

====
